---- MODULE Spec2Model ----
(***************************************************************************)
(* Model of backend/analyze_bias.py: analyzeBias (the result filter) and    *)
(* callBiasLLM (the prompt/response adapter around one call to the LLM      *)
(* service).  One request is followed from its entry to its return or its   *)
(* exception.  The LLM service is the environment: it either fails at       *)
(* transport level or answers with a text, modelled as a sequence of JSON   *)
(* tokens that json.loads has to parse.                                     *)
(***************************************************************************)
EXTENDS Integers, Sequences, FiniteSets, TLC

VARIABLES
    entry,        \* which function the caller invoked: "analyzeBias" | "callBiasLLM"
    pc,           \* position of the request in the code
    paragraphs,   \* analyzeBias: the argument, a list of paragraph texts
    llmItems,     \* list of { "index", "text" } handed to callBiasLLM
    requests,     \* the outbound calls made so far: the user payload of each
    outputText,   \* the response text of the service (token sequence)
    llmOutputs,   \* analyzeBias: the list callBiasLLM returned
    pos,          \* analyzeBias: position of the for-loop in llmOutputs
    results,      \* analyzeBias: dict index -> entry
    outcome,      \* "running" | "returned" | "raised"
    ret,          \* the value returned to the caller (when outcome = "returned")
    error         \* the exception raised to the caller (when outcome = "raised")

vars == <<entry, pc, paragraphs, llmItems, requests, outputText, llmOutputs,
          pos, results, outcome, ret, error>>

-----------------------------------------------------------------------------
(* Bounds and input domains *)

MaxPar == 2
MaxJudgments == 2

\* The paragraphs of a request are the first n paragraphs of an article.
Article == <<"A", "B", "C", "D", "E">>

\* The worked example of the specification's testable properties.
ExampleParagraphs == <<"A", "B", "C">>
ExampleJudgments ==
    << [index |-> 1, label |-> "ad hominem", reason |-> "r1"],
       [index |-> 2, label |-> "none", reason |-> "r1"],
       [index |-> 0, label |-> "misleading", reason |-> "r2"] >>

ParagraphLists ==
    {SubSeq(Article, 1, n) : n \in 0..MaxPar} \cup {ExampleParagraphs}

\* Indices a judgment may carry: valid ones, negative ones, too large ones.
IndexValues == (0 - (MaxPar + 1))..MaxPar

\* The other fields of a judgment; a field may be missing, and the service
\* may echo a text of its own.
FieldVariants ==
    { [label |-> "None", reason |-> "r1"],
      [label |-> "", reason |-> "r1"],
      [reason |-> "r1"],
      [label |-> "ad hominem", reason |-> "r1"],
      [label |-> "ad hominem"],
      [label |-> "misleading", reason |-> "r2", text |-> "echo"] }

Judgments ==
    {[index |-> i] @@ v : i \in IndexValues, v \in FieldVariants}
        \cup {[label |-> "misleading", reason |-> "r2"]}

JudgmentLists ==
    UNION {[1..k -> Judgments] : k \in 0..MaxJudgments} \cup {ExampleJudgments}

-----------------------------------------------------------------------------
(* JSON texts: token sequences.  An object token is the object itself.      *)

LB == [tok |-> "["]
RB == [tok |-> "]"]
COMMA == [tok |-> ","]
PROSE == [tok |-> "prose"]

IsObject(t) == "tok" \notin DOMAIN t

\* What the service writes when it answers with the list js.
RECURSIVE dumpsItems(_)
dumpsItems(js) ==
    IF Len(js) = 0 THEN <<>>
    ELSE IF Len(js) = 1 THEN <<js[1]>>
    ELSE <<js[1], COMMA>> \o dumpsItems(Tail(js))

dumps(js) == <<LB>> \o dumpsItems(js) \o <<RB>>

ParseFailure == [ok |-> FALSE, isList |-> FALSE, value |-> <<>>]

\* A plausible slip: a list cut off before its closing bracket is accepted.
RECURSIVE loadsItemsLenient(_, _, _)
loadsItemsLenient(text, p, acc) ==
    IF p > Len(text) THEN ParseFailure
    ELSE IF ~IsObject(text[p]) THEN ParseFailure
    ELSE IF p = Len(text)
         THEN [ok |-> TRUE, isList |-> TRUE, value |-> Append(acc, text[p])]
    ELSE IF p + 1 = Len(text)
         THEN IF text[p + 1] = RB
              THEN [ok |-> TRUE, isList |-> TRUE, value |-> Append(acc, text[p])]
              ELSE ParseFailure
         ELSE IF text[p + 1] = COMMA
              THEN loadsItemsLenient(text, p + 2, Append(acc, text[p]))
              ELSE ParseFailure

\* The elements of a list, from position p (an object is expected there).
RECURSIVE loadsItems(_, _, _)
loadsItems(text, p, acc) ==
    IF p > Len(text) - 1 \/ ~IsObject(text[p]) THEN ParseFailure
    ELSE IF p + 1 = Len(text)
         THEN IF text[p + 1] = RB
              THEN [ok |-> TRUE, isList |-> TRUE, value |-> Append(acc, text[p])]
              ELSE ParseFailure
         ELSE IF text[p + 1] = COMMA
              THEN loadsItems(text, p + 2, Append(acc, text[p]))
              ELSE ParseFailure

\* json.loads: a single object, or a bracketed comma-separated list of objects.
loads(text) ==
    IF Len(text) = 0 THEN ParseFailure
    ELSE IF Len(text) = 1
         THEN IF IsObject(text[1])
              THEN [ok |-> TRUE, isList |-> FALSE, value |-> text[1]]
              ELSE ParseFailure
    ELSE IF text[1] # LB THEN ParseFailure
    ELSE IF Len(text) = 2
         THEN IF text[2] = RB
              THEN [ok |-> TRUE, isList |-> TRUE, value |-> <<>>]
              ELSE ParseFailure
    ELSE loadsItems(text, 2, <<>>)

\* Texts the service may answer with: a JSON list of judgments, a single JSON
\* object, or a text that is not JSON (empty, prose, prose around a list, a
\* list cut off, a missing comma, a trailing comma).
ListTexts == {dumps(js) : js \in JudgmentLists}
ObjectTexts == {<<j>> : j \in {ExampleJudgments[1], ExampleJudgments[2]}}
MalformedTexts ==
    { <<>>, <<PROSE>>, <<PROSE>> \o dumps(ExampleJudgments),
      dumps(ExampleJudgments) \o <<PROSE>>,
      <<LB>>,
      <<LB, ExampleJudgments[1]>>,
      <<LB, ExampleJudgments[1], COMMA, ExampleJudgments[3]>>,
      <<LB, ExampleJudgments[1], ExampleJudgments[2], RB>>,
      <<LB, ExampleJudgments[1], COMMA, RB>> }
ResponseTexts == ListTexts \cup ObjectTexts \cup MalformedTexts

-----------------------------------------------------------------------------
(* Exceptions *)

NoError == [type |-> "none", prefix |-> "", detail |-> <<>>]
TransportError == [type |-> "APIError", prefix |-> "", detail |-> <<>>]
NonJsonError(text) ==
    [type |-> "RuntimeError", prefix |-> "[Log] LLM returned non JSON output: ",
     detail |-> text]
NotListError(parsed) ==
    [type |-> "RuntimeError", prefix |-> "[Log] LLM output is not a list: ",
     detail |-> parsed]
KeyError == [type |-> "KeyError", prefix |-> "index", detail |-> <<>>]
IndexError == [type |-> "IndexError", prefix |-> "list index out of range", detail |-> <<>>]

-----------------------------------------------------------------------------
(* callBiasLLM *)

\* A plausible slip: the fast path for an empty list is missing.
NoItemsNever(items) == FALSE

\* `if not llmItems`
NoItems(items) == Len(items) = 0

\* A plausible slip: only the first item is sent.
userPayloadFirstOnly(items) ==
    [paragraphs |-> [k \in 1..1 |->
                        [index |-> items[k].index, text |-> items[k].text]]]

\* The user payload: every item of llmItems, with its index and its text.
userPayload(items) ==
    [paragraphs |-> [k \in 1..Len(items) |->
                        [index |-> items[k].index, text |-> items[k].text]]]

\* `isinstance(parsed, list)`
IsList(parsed) == parsed.isList

\* The adapter hands `value` back to its caller: to the caller of the request
\* when it was called directly, to the loop of analyzeBias otherwise.
AdapterReturns(value) ==
    IF entry = "callBiasLLM"
    THEN /\ pc' = "done"
         /\ outcome' = "returned"
         /\ ret' = value
         /\ UNCHANGED <<llmOutputs, pos>>
    ELSE /\ pc' = IF Len(value) = 0 THEN "normalize" ELSE "loop"
         /\ llmOutputs' = value
         /\ pos' = 1
         /\ UNCHANGED <<outcome, ret>>

\* An exception leaves the request: nothing in the code catches it.
Raise(e) ==
    /\ pc' = "done"
    /\ outcome' = "raised"
    /\ error' = e

callBiasLLMEmpty ==
    /\ pc = "callBiasLLM"
    /\ NoItems(llmItems)
    /\ AdapterReturns(<<>>)
    /\ UNCHANGED <<entry, paragraphs, llmItems, requests, outputText, results, error>>

callBiasLLMRequest ==
    /\ pc = "callBiasLLM"
    /\ ~NoItems(llmItems)
    /\ requests' = Append(requests, userPayload(llmItems))
    /\ pc' = "await"
    /\ UNCHANGED <<entry, paragraphs, llmItems, outputText, llmOutputs, pos,
                   results, outcome, ret, error>>

TransportFailure ==
    /\ pc = "await"
    /\ Raise(TransportError)
    /\ UNCHANGED <<entry, paragraphs, llmItems, requests, outputText, llmOutputs,
                   pos, results, ret>>

ServiceResponds ==
    /\ pc = "await"
    /\ \E text \in ResponseTexts : outputText' = text
    /\ pc' = "parse"
    /\ UNCHANGED <<entry, paragraphs, llmItems, requests, llmOutputs, pos,
                   results, outcome, ret, error>>

callBiasLLMNonJson ==
    /\ pc = "parse"
    /\ ~loads(outputText).ok
    /\ Raise(NonJsonError(outputText))
    /\ UNCHANGED <<entry, paragraphs, llmItems, requests, outputText, llmOutputs,
                   pos, results, ret>>

callBiasLLMNotList ==
    /\ pc = "parse"
    /\ loads(outputText).ok
    /\ ~IsList(loads(outputText))
    /\ Raise(NotListError(loads(outputText).value))
    /\ UNCHANGED <<entry, paragraphs, llmItems, requests, outputText, llmOutputs,
                   pos, results, ret>>

callBiasLLMReturn ==
    /\ pc = "parse"
    /\ loads(outputText).ok
    /\ IsList(loads(outputText))
    /\ AdapterReturns(loads(outputText).value)
    /\ UNCHANGED <<entry, paragraphs, llmItems, requests, outputText, results, error>>

-----------------------------------------------------------------------------
(* analyzeBias *)

\* `for idx, text in enumerate(paragraphs): llmItems.append(...)`
enumerate(ps) == [k \in 1..Len(ps) |-> [index |-> k - 1, text |-> ps[k]]]

\* The label that means "no notable bias".
NeutralTag == "None"

\* A plausible slip: a missing label defaults to a tag the filter lets through.
labelOfUnknown(item) == IF "label" \in DOMAIN item THEN item.label ELSE "Unknown"

\* item.get("label", "None") and item.get("reason", "")
labelOf(item) == IF "label" \in DOMAIN item THEN item.label ELSE NeutralTag
reasonOf(item) == IF "reason" \in DOMAIN item THEN item.reason ELSE ""

\* A plausible slip: the comparison with the neutral tag is left out.
IsBiasedAnyLabel(label) == label # ""

\* `if label and label != "None"`
IsBiased(label) == label # "" /\ label # NeutralTag

\* paragraphs[idx] of a Python list: a negative idx counts from the end.
InListRange(ps, idx) == 0 - Len(ps) <= idx /\ idx < Len(ps)
listItem(ps, idx) == ps[(IF idx < 0 THEN idx + Len(ps) ELSE idx) + 1]

\* A plausible slip: an index already stored is kept (first write wins).
storeIfAbsent(res, idx, e) ==
    [k \in DOMAIN res \cup {idx} |-> IF k \in DOMAIN res THEN res[k] ELSE e]

\* results[idx] = entry
store(res, idx, e) ==
    [k \in DOMAIN res \cup {idx} |-> IF k = idx THEN e ELSE res[k]]

\* One pass of the body of `for item in llmOutputs`.
loopBody(res, ps, item) ==
    IF "index" \notin DOMAIN item
    THEN [error |-> KeyError, results |-> res]
    ELSE IF ~IsBiased(labelOf(item))
    THEN [error |-> NoError, results |-> res]
    ELSE IF ~InListRange(ps, item.index)
    THEN [error |-> IndexError, results |-> res]
    ELSE [error |-> NoError,
          results |-> store(res, item.index,
                            [index |-> item.index,
                             text |-> listItem(ps, item.index),
                             label |-> labelOf(item),
                             reason |-> reasonOf(item)])]

\* A plausible slip: the keys are taken in descending order.
RECURSIVE sortedDescending(_)
sortedDescending(keys) ==
    IF keys = {} THEN <<>>
    ELSE LET m == CHOOSE x \in keys : \A y \in keys : x >= y
         IN <<m>> \o sortedDescending(keys \ {m})

\* sorted(results.keys())
RECURSIVE sorted(_)
sorted(keys) ==
    IF keys = {} THEN <<>>
    ELSE LET m == CHOOSE x \in keys : \A y \in keys : x <= y
         IN <<m>> \o sorted(keys \ {m})

\* The list built from the results table for the frontend.
merged(res) ==
    LET order == sorted(DOMAIN res)
    IN [k \in 1..Len(order) |->
           [index |-> res[order[k]].index, text |-> res[order[k]].text,
            label |-> res[order[k]].label, reason |-> res[order[k]].reason]]

analyzeBiasStart ==
    /\ pc = "analyzeBias"
    /\ llmItems' = enumerate(paragraphs)
    /\ results' = <<>>
    /\ pc' = IF Len(llmItems') > 0 THEN "callBiasLLM" ELSE "normalize"
    /\ UNCHANGED <<entry, paragraphs, requests, outputText, llmOutputs, pos,
                   outcome, ret, error>>

analyzeBiasLoop ==
    /\ pc = "loop"
    /\ pos <= Len(llmOutputs)
    /\ LET r == loopBody(results, paragraphs, llmOutputs[pos])
       IN IF r.error # NoError
          THEN /\ Raise(r.error)
               /\ UNCHANGED <<pos, results>>
          ELSE /\ results' = r.results
               /\ pos' = pos + 1
               /\ pc' = IF pos' > Len(llmOutputs) THEN "normalize" ELSE "loop"
               /\ UNCHANGED <<outcome, error>>
    /\ UNCHANGED <<entry, paragraphs, llmItems, requests, outputText, llmOutputs, ret>>

analyzeBiasReturn ==
    /\ pc = "normalize"
    /\ ret' = merged(results)
    /\ outcome' = "returned"
    /\ pc' = "done"
    /\ UNCHANGED <<entry, paragraphs, llmItems, requests, outputText, llmOutputs,
                   pos, results, error>>

-----------------------------------------------------------------------------
(* The request *)

Init ==
    /\ entry \in {"analyzeBias", "callBiasLLM"}
    /\ pc = entry
    /\ IF entry = "analyzeBias"
       THEN paragraphs \in ParagraphLists /\ llmItems = <<>>
       ELSE paragraphs = <<>> /\ llmItems \in {enumerate(ps) : ps \in ParagraphLists}
    /\ requests = <<>>
    /\ outputText = <<>>
    /\ llmOutputs = <<>>
    /\ pos = 1
    /\ results = <<>>
    /\ outcome = "running"
    /\ ret = <<>>
    /\ error = NoError

Next ==
    \/ analyzeBiasStart
    \/ callBiasLLMEmpty
    \/ callBiasLLMRequest
    \/ TransportFailure
    \/ ServiceResponds
    \/ callBiasLLMNonJson
    \/ callBiasLLMNotList
    \/ callBiasLLMReturn
    \/ analyzeBiasLoop
    \/ analyzeBiasReturn

Spec == Init /\ [][Next]_vars

TypeOK ==
    /\ entry \in {"analyzeBias", "callBiasLLM"}
    /\ pc \in {"analyzeBias", "callBiasLLM", "await", "parse", "loop", "normalize", "done"}
    /\ outcome \in {"running", "returned", "raised"}
    /\ (pc = "done") = (outcome # "running")
    /\ pos \in 1..(Len(llmOutputs) + 1)

-----------------------------------------------------------------------------
(* analyzeBias as a function of its argument and of the adapter's list: the  *)
(* for-loop over llmOutputs from position k on, then the normalisation.      *)

RECURSIVE runLoop(_, _, _, _)
runLoop(res, ps, outs, k) ==
    IF k > Len(outs) THEN [outcome |-> "returned", ret |-> merged(res)]
    ELSE LET r == loopBody(res, ps, outs[k])
         IN IF r.error # NoError
            THEN [outcome |-> "raised", ret |-> <<>>]
            ELSE runLoop(r.results, ps, outs, k + 1)

-----------------------------------------------------------------------------
(* Vocabulary of the properties *)

\* analyzeBias has returned its list.
AnalysisReturned == entry = "analyzeBias" /\ outcome = "returned"

\* analyzeBias has ended after the adapter handed it a list.
AnalysisEndedAfterAdapter ==
    /\ entry = "analyzeBias"
    /\ pc = "done"
    /\ error.type \in {"none", "KeyError", "IndexError"}
    /\ requests # <<>>

\* The positions of outs whose judgment carries index idx.
PositionsOf(outs, idx) ==
    {p \in 1..Len(outs) : "index" \in DOMAIN outs[p] /\ outs[p].index = idx}

\* The positions of outs whose judgment carries index idx and a label that is
\* present, not empty and not the neutral tag.
BiasedPositionsOf(outs, idx) ==
    {p \in PositionsOf(outs, idx) :
        "label" \in DOMAIN outs[p] /\ outs[p].label \notin {"", NeutralTag}}

Last(positions) == CHOOSE p \in positions : \A q \in positions : q <= p

AllIndexed(outs) == \A p \in 1..Len(outs) : "index" \in DOMAIN outs[p]

DistinctIndices(outs) ==
    /\ AllIndexed(outs)
    /\ \A p, q \in 1..Len(outs) : outs[p].index = outs[q].index => p = q

Reorderings(outs) ==
    {[k \in 1..Len(outs) |-> outs[f[k]]] : f \in Permutations(1..Len(outs))}

ValidPositions == 0..(Len(paragraphs) - 1)

-----------------------------------------------------------------------------
(* Properties *)

\* C1: analyzeBias with an empty paragraph list returns the empty list, never
\* enters the adapter and makes no outbound call; callBiasLLM with an empty
\* item list returns the empty list and makes no outbound call.
C1_EmptyInputNoCall ==
    /\ (entry = "analyzeBias" /\ paragraphs = <<>>) =>
          /\ requests = <<>>
          /\ pc \in {"analyzeBias", "normalize", "done"}
          /\ outcome # "raised"
          /\ (pc = "done" => outcome = "returned" /\ ret = <<>>)
    /\ (entry = "callBiasLLM" /\ llmItems = <<>>) =>
          /\ requests = <<>>
          /\ pc \in {"callBiasLLM", "done"}
          /\ outcome # "raised"
          /\ (pc = "done" => outcome = "returned" /\ ret = <<>>)

C1_Witness ==
    /\ pc = "done"
    /\ outcome = "returned"
    /\ ret = <<>>
    /\ requests = <<>>
    /\ entry = "callBiasLLM"
    /\ llmItems = <<>>

C3_AscendingWhateverTheOrder ==
    /\ AnalysisReturned =>
          \A k \in 1..(Len(ret) - 1) : ret[k].index <= ret[k + 1].index
    /\ (AnalysisEndedAfterAdapter /\ DistinctIndices(llmOutputs)) =>
          \A outs \in Reorderings(llmOutputs) :
              runLoop(<<>>, paragraphs, outs, 1) = [outcome |-> outcome, ret |-> ret]

C3_Witness ==
    /\ AnalysisReturned
    /\ Len(ret) = 2
    /\ Len(llmOutputs) = 2
    /\ llmOutputs[1].index > llmOutputs[2].index
    /\ ret[1].index = llmOutputs[2].index
    /\ ret[2].index = llmOutputs[1].index

\* C4: for paragraphs A, B, C and the judgments (1, "ad hominem"),
\* (2, "none"), (0, "misleading") in this order, analyzeBias returns exactly
\* two entries, index 0 then index 1.
C4_ExampleYieldsTwoEntries ==
    (/\ entry = "analyzeBias"
     /\ pc = "done"
     /\ paragraphs = ExampleParagraphs
     /\ llmOutputs = ExampleJudgments) =>
        /\ outcome = "returned"
        /\ Len(ret) = 2
        /\ ret[1].index = 0
        /\ ret[2].index = 1

\* C5: the text of every entry analyzeBias returns is the input paragraph at
\* the zero-based position the entry's index names.
C5_TextIsParagraphAtIndex ==
    AnalysisReturned =>
        \A k \in 1..Len(ret) :
            /\ ret[k].index \in ValidPositions
            /\ ret[k].text = paragraphs[ret[k].index + 1]

\* C6: when the adapter's list holds a judgment whose index is outside
\* 0..len(paragraphs)-1, analyzeBias fails and returns no list.
C6_OutOfRangeIndexFails ==
    (/\ AnalysisEndedAfterAdapter
     /\ \E p \in 1..Len(llmOutputs) :
           /\ "index" \in DOMAIN llmOutputs[p]
           /\ llmOutputs[p].index \notin ValidPositions) =>
        outcome = "raised"

\* C7: the pass of the loop over a judgment without a label stores nothing
\* and raises nothing; the pass over a judgment with a non-neutral label and
\* no reason stores an entry with that label and the empty string as reason,
\* and raises nothing unless the index lookup does.
C7_MissingFieldsDefault ==
    [][(pc = "loop" /\ "index" \in DOMAIN llmOutputs[pos]) =>
          LET item == llmOutputs[pos]
          IN /\ "label" \notin DOMAIN item =>
                    /\ results' = results
                    /\ outcome' = "running"
                    /\ pos' = pos + 1
             /\ (/\ "label" \in DOMAIN item
                 /\ item.label \notin {"", NeutralTag}
                 /\ "reason" \notin DOMAIN item) =>
                    IF 0 - Len(paragraphs) <= item.index /\ item.index < Len(paragraphs)
                    THEN /\ outcome' = "running"
                         /\ item.index \in DOMAIN results'
                         /\ results'[item.index].reason = ""
                         /\ results'[item.index].label = item.label
                    ELSE error'.type = "IndexError"]_vars

C7_Witness ==
    /\ AnalysisReturned
    /\ Len(llmOutputs) = 2
    /\ DOMAIN llmOutputs[1] = {"index", "reason"}
    /\ DOMAIN llmOutputs[2] = {"index", "label"}
    /\ llmOutputs[1].index = llmOutputs[2].index
    /\ Len(ret) = 1
    /\ ret[1].reason = ""
    /\ ret[1].label = llmOutputs[2].label

\* C8: once the service has answered, callBiasLLM hands a value to its caller
\* only if the response text is the JSON text of a list, and the value is
\* that list; a text that is not JSON raises the error that carries the raw
\* text, and the JSON text of a single object raises the shape error.
C8_AdapterValue ==
    LET answered == requests # <<>> /\ pc \in {"loop", "normalize", "done"}
                       /\ error.type # "APIError"
        handed == \/ entry = "callBiasLLM" /\ outcome = "returned"
                  \/ entry = "analyzeBias" /\ error.type \notin {"RuntimeError"}
        value == IF entry = "callBiasLLM" THEN ret ELSE llmOutputs
    IN answered =>
          /\ handed => outputText = dumps(value)
          /\ outputText \in MalformedTexts =>
                /\ outcome = "raised"
                /\ error.type = "RuntimeError"
                /\ error.prefix = "[Log] LLM returned non JSON output: "
                /\ error.detail = outputText
          /\ outputText \in ObjectTexts =>
                /\ outcome = "raised"
                /\ error.type = "RuntimeError"
                /\ error.prefix = "[Log] LLM output is not a list: "

C8_Witness ==
    /\ entry = "callBiasLLM"
    /\ outcome = "returned"
    /\ Len(ret) = 2
    /\ outputText = <<LB, ret[1], COMMA, ret[2], RB>>

\* C9: a request of analyzeBias with a non-empty paragraph list never makes
\* more than one outbound call; when it has ended it has made exactly one,
\* which carried every paragraph with its zero-based index; and a transport
\* failure ends the request with that exception and without a result.
C9_ExactlyOneCall ==
    /\ Len(requests) <= 1
    /\ (entry = "analyzeBias" /\ paragraphs # <<>> /\ pc \notin {"analyzeBias", "callBiasLLM"}) =>
          /\ Len(requests) = 1
          /\ Len(requests[1].paragraphs) = Len(paragraphs)
          /\ \A k \in 1..Len(paragraphs) :
                /\ requests[1].paragraphs[k].index = k - 1
                /\ requests[1].paragraphs[k].text = paragraphs[k]
    /\ (entry = "analyzeBias" /\ paragraphs # <<>> /\ pc = "callBiasLLM") =>
          requests = <<>>
    /\ error.type = "APIError" =>
          /\ pc = "done"
          /\ outcome = "raised"
          /\ ret = <<>>
          /\ Len(requests) = 1

C9_Witness ==
    /\ entry = "analyzeBias"
    /\ Len(paragraphs) = 2
    /\ error.type = "APIError"
    /\ outcome = "raised"
    /\ Len(requests) = 1

\* C10 as claimed: the indices of the output are strictly increasing, and the
\* label and reason of each entry are those of the last judgment the adapter
\* returned for the entry's index.
C10_LastJudgmentWins ==
    AnalysisReturned =>
        /\ \A k \in 1..(Len(ret) - 1) : ret[k].index < ret[k + 1].index
        /\ \A k \in 1..Len(ret) :
              LET last == llmOutputs[Last(PositionsOf(llmOutputs, ret[k].index))]
              IN /\ ret[k].label = (IF "label" \in DOMAIN last THEN last.label ELSE NeutralTag)
                 /\ ret[k].reason = (IF "reason" \in DOMAIN last THEN last.reason ELSE "")

\* C10 as amended: the indices of the output are strictly increasing, and the
\* label and reason of each entry are those of the last judgment for the
\* entry's index among the judgments whose label is present, not empty and
\* not the neutral tag.
C10_LastNonNeutralJudgmentWins ==
    AnalysisReturned =>
        /\ \A k \in 1..(Len(ret) - 1) : ret[k].index < ret[k + 1].index
        /\ \A k \in 1..Len(ret) :
              /\ BiasedPositionsOf(llmOutputs, ret[k].index) # {}
              /\ LET last == llmOutputs[Last(BiasedPositionsOf(llmOutputs, ret[k].index))]
                 IN /\ ret[k].label = last.label
                    /\ ret[k].reason = (IF "reason" \in DOMAIN last THEN last.reason ELSE "")

C10_Witness ==
    /\ AnalysisReturned
    /\ Len(llmOutputs) = 2
    /\ llmOutputs[1].index = llmOutputs[2].index
    /\ "label" \in DOMAIN llmOutputs[1] /\ llmOutputs[1].label = "ad hominem"
    /\ "label" \in DOMAIN llmOutputs[2] /\ llmOutputs[2].label = "misleading"
    /\ Len(ret) = 1
    /\ ret[1].label = "misleading"
    /\ ret[1].reason = "r2"

====
